---- MODULE Spec2Model ----
(***************************************************************************)
(* The channel bus `lsEmitter` of src/server/public/js/bundle.js: named     *)
(* channels with one listener each, a queue of invocations waiting for a   *)
(* channel to be defined, and the dispatches the bus defers through the    *)
(* host's timer queue (`after`, i.e. setTimeout).                          *)
(*                                                                         *)
(* JavaScript runs one task at a time.  A step of this model is one task:  *)
(* a call of a bus method by the application, the firing of one timer, or  *)
(* the resumption of one suspended (asynchronous) listener.  The           *)
(* microtasks a task queues (the continuation of `await` in `exe`) run     *)
(* before the next task and belong to the same step.                       *)
(***************************************************************************)
EXTENDS Integers, Sequences, FiniteSets, TLC

\* ------------------------------------------------------------------ bounds
\* number of invoke calls with a valid channel name in one behaviour of Spec
MaxDispatch == 2
\* the same in one behaviour of SpecCalls
MaxCallDispatch == 1
\* number of DOM listeners attached by addEvent in one behaviour of SpecEvents
MaxAddEvent == 2
\* number of create calls in one behaviour of the specifications of the tree
MaxCreate == 1
\* number of lookups by index name in one behaviour of SpecLookup
MaxLookup == 1
\* the same in one behaviour of SpecRefer
MaxRefer == 2
\* number of destroy timers a component may have set at one time
MaxDestroy == 1
\* number of components an application of SpecTree creates
MaxTree == 2
\* length of the hook lists up to which the application adds hooks
MaxHook == 2
\* number of removeAll timers that may be set at one time
MaxTask == 1
\* length of the child list up to which the application adds children
MaxContent == 1

\* ------------------------------------------------------- channel names
\* A value passed as channel name: its JavaScript type and, for a string,
\* its characters.
Str(chars) == [type |-> "string", chars |-> chars]
NameA == Str(<<"a">>)
NameB == Str(<<"b">>)
EmptyName == Str(<<>>)
BlankName == Str(<<" ", " ">>)
Undefined == [type |-> "undefined", chars |-> <<>>]
Seven == [type |-> "number", chars |-> <<"7">>]

ValidNames == {NameA, NameB}
InvalidNames == {EmptyName, BlankName, Seven}
ChannelNames == ValidNames \cup InvalidNames

IsSpace(c) == c = " "

RECURSIVE TrimStart(_)
TrimStart(s) == IF s # <<>> /\ IsSpace(Head(s)) THEN TrimStart(Tail(s)) ELSE s

RECURSIVE TrimEnd(_)
TrimEnd(s) ==
    IF s # <<>> /\ IsSpace(s[Len(s)]) THEN TrimEnd(SubSeq(s, 1, Len(s) - 1)) ELSE s

\* String.prototype.trim
trim(s) == TrimEnd(TrimStart(s))

\* JavaScript falsiness of the values used as names: undefined and ""
Falsy(v) == v.type = "undefined" \/ (v.type = "string" /\ v.chars = <<>>)

\* a validation that does not trim: it accepts a whitespace-only name
validateChannelName_noTrim(channel) == Falsy(channel) \/ channel.type # "string"

\* TRUE iff validateChannelName(channel) throws INVALID_CHANNEL_NAME
validateChannelName(channel) ==
    Falsy(channel) \/ channel.type # "string" \/ trim(channel.chars) = <<>>

\* ------------------------------------------------------------ listeners
\* The listeners an application registers, by what they do when called:
\*   l1  synchronous, calls event.send
\*   l2  asynchronous: calls event.send, then suspends until a later task
\*   l3  synchronous, never calls event.send
\* The listeners the component tree registers are synchronous and call
\* event.send (sendElement below).
Listeners == {"l1", "l2", "l3"}
NoListener == "none"
IsAsync(l) == l = "l2"
Sends(l) == l \notin {"l3", NoListener}

\* The d-th invoke call passes an argument list of its own.
NoArgs == <<>>
ArgsOf(d) == <<d>>

\* error codes of EventEmitterError
Codes == {"INVALID_CHANNEL_NAME", "EVENT_DESTROYED", "NON_WRITABLE_CHANNEL",
          "CHANNEL_NOT_FOUND", "NON_REMOVABLE_CHANNEL"}

Methods == {"invoke", "handle", "removeEvent", "removeChannel", "hasEvent",
            "eventsList", "clear"}

VARIABLES
    channels,        \* channel name -> [listener, removable, writable]
    inWaitChannel,   \* channel name -> sequence of waiting dispatches
    data,            \* the value last passed to event.send
    isDestroyed,
    EVENTS,          \* method name -> "orig" or "checkState"
    timers,          \* the host's timer queue: dispatches awaiting exe
    dispatch,        \* sequence of the invoke calls made, by id
    ret,             \* how the call of a bus method made in the last step ended
    done,            \* the dispatch that completed in the last step
    elements,        \* the components constructed so far, by key
    leisElementMap,  \* the keys of the Component Registry
    tasks,           \* the host's timers set by the component tree
    closures,        \* the result callback of each lookup, by dispatch
    hooks,           \* hook list name -> the entries pushed on it
    log              \* the hooks and listeners run in the last step, in order

vars == <<channels, inWaitChannel, data, isDestroyed, EVENTS, timers,
          dispatch, ret, done, elements, leisElementMap, tasks, closures,
          hooks, log>>

\* the variables of the component tree
tree == <<elements, leisElementMap, tasks, closures, hooks, log>>

\* the variables of the bus and of the host
state == <<channels, inWaitChannel, data, isDestroyed, EVENTS, timers, dispatch>>

\* the empty object {}
EmptyObj == [n \in {} |-> 0]

\* obj.has(prop, obj) on a plain object
has(prop, obj) == prop \in DOMAIN obj

\* delete obj[prop]
Delete(obj, prop) == [k \in DOMAIN obj \ {prop} |-> obj[k]]

\* obj[prop] = value
Put(obj, prop, value) ==
    [k \in DOMAIN obj \cup {prop} |-> IF k = prop THEN value ELSE obj[k]]

Range(s) == {s[i] : i \in DOMAIN s}

\* the listener the data.id setter of component c registers:
\* e => e.send(this.element)
sendElement(c) == "send" \o ToString(c)

\* the component a listener sends, 0 for a listener of the application
ElementOf(l) ==
    IF \E c \in DOMAIN elements : sendElement(c) = l
    THEN CHOOSE c \in DOMAIN elements : sendElement(c) = l
    ELSE 0

\* A value passed to event.send: the dispatch whose listener run made it,
\* the `channel` property of the value (the listeners of this model send
\* values that have none) and, when the value is a component, which one.
\* NoValue is null.
NoValue == [of |-> 0, channel |-> Undefined, element |-> 0]
SentValue(l, d, ch) == [of |-> d, channel |-> Undefined, element |-> ElementOf(l)]

\* The record of one invoke call.  st: "queued" in inWaitChannel, "timer"
\* awaiting exe, "suspended" in its listener, "done", "dropped" with its
\* queue.  deferred: no channel of that name existed at the call.  handled:
\* a handle call has run its thunk.  The rest is what its exe has done.
NoDispatch ==
    [id |-> 0, st |-> "done", ch |-> Undefined, cb |-> FALSE, args |-> NoArgs,
     deferred |-> FALSE, handled |-> FALSE,
     lis |-> NoListener, largs |-> NoArgs, lcalls |-> 0,
     sent |-> NoValue, cbn |-> 0, cbv |-> NoValue]

NoCall == [op |-> "none", name |-> Undefined, mode |-> "none", code |-> "none",
           value |-> FALSE]

\* The ways a call ends.  The environment `env` says whether calls are
\* observed.
Returned(env, op, n, v) ==
    IF env.calls
    THEN [op |-> op, name |-> n, mode |-> "return", code |-> "none", value |-> v]
    ELSE NoCall
Thrown(env, op, n, code) ==
    IF env.calls
    THEN [op |-> op, name |-> n, mode |-> "throw", code |-> code, value |-> FALSE]
    ELSE NoCall
\* an `async function`: a throw in its body rejects the promise it returns
Resolved(env, op, n) ==
    IF env.calls
    THEN [op |-> op, name |-> n, mode |-> "resolve", code |-> "none", value |-> FALSE]
    ELSE NoCall
Rejected(env, op, n, code) ==
    IF env.calls
    THEN [op |-> op, name |-> n, mode |-> "reject", code |-> code, value |-> FALSE]
    ELSE NoCall

\* ------------------------------------------------------------ components
\* null (the index name and the parent of a fresh component)
Null == [type |-> "null", chars |-> <<>>]

\* A component is named by its position in `elements`, which stands for
\* its generated key; 0 stands for null where a component is expected.
\* content is the child list; contentMap is the key-to-child map, as the
\* sequence of its keys in insertion order (the order of for-in); node is
\* the component whose DOM node holds the DOM node of this one; listeners
\* is the set of DOM listeners of its node; cleared says destroy has
\* deleted its fields.
BaseElement(key) ==
    [key |-> key, content |-> <<>>, contentMap |-> <<>>, rendered |-> FALSE,
     parent |-> 0, eventMap |-> EmptyObj, indexName |-> Null,
     eventListeners |-> EmptyObj, node |-> 0, listeners |-> {},
     callbacks |-> 0, cleared |-> FALSE]

NameMain == Str(<<"m", "a", "i", "n">>)

\* a setter that registers a writable channel
idFlags_writable == <<TRUE, TRUE>>

\* the flags the data.id setter passes to handle: removable, writable
idFlags == <<TRUE, FALSE>>

\* the components the application holds: those of the environment that have
\* been constructed and whose fields have not been deleted
Held(env) == {c \in env.elements \cap DOMAIN elements : ~elements[c].cleared}

HookNames == {"useInit", "useOption", "useRender"}

\* the component tree once the module is loaded: `main`, whose index name
\* is "main", is the only component the application can reach
main == [BaseElement(1) EXCEPT !.indexName = NameMain]

TreeLoaded ==
    /\ elements = <<main>>
    /\ leisElementMap = {}
    /\ tasks = <<>>
    /\ closures = <<>>
    /\ hooks = [name \in HookNames |-> <<>>]
    /\ log = <<>>

\* the Indexed Lookup Registry (indexedElementEvent) once the module is loaded
mainChannel ==
    [listener |-> sendElement(1), removable |-> idFlags[1], writable |-> idFlags[2]]

Init ==
    /\ TreeLoaded
    /\ channels = EmptyObj
    /\ inWaitChannel = EmptyObj
    /\ data = NoValue
    /\ isDestroyed = FALSE
    /\ EVENTS = [m \in Methods |-> "orig"]
    /\ timers = <<>>
    /\ dispatch = <<>>
    /\ ret = NoCall
    /\ done = NoDispatch

\* ------------------------------------------------------------ checkState
\* checkState(): the error it throws, "none" when it returns
checkState == IF isDestroyed THEN "EVENT_DESTROYED" ELSE "none"

\* A method of a cleared bus: clear() has replaced it by checkState, which
\* ignores its arguments.
CheckStateCall(env, op, n) ==
    /\ ret' = IF checkState # "none" THEN Thrown(env, op, n, checkState)
              ELSE Returned(env, op, n, FALSE)
    /\ done' = NoDispatch
    /\ UNCHANGED state

\* ---------------------------------------------------------------- invoke
\* a host whose timers of equal delay fire last set, first run
after_lastFirst(queue, d) == <<d>> \o queue

\* after(1, exe): the host runs exe in a later task; timers of equal delay
\* fire in the order they were set.
after(queue, d) == Append(queue, d)

\* inWaitChannel[channel].push(thunk), creating the queue when absent
pushWaiting(channel, d) ==
    Put(inWaitChannel, channel,
        Append(IF has(channel, inWaitChannel) THEN inWaitChannel[channel] ELSE <<>>, d))

\* an invoke that queues its thunk whether or not the channel exists
invokeNow_never(channel) == FALSE

\* TRUE iff invoke runs exe through the timer rather than queueing it
invokeNow(channel) == ~isDestroyed /\ has(channel, channels)

\* the record of the call invoke(channel, listener, ...args)
NewDispatch(d, channel, cb, st) ==
    [NoDispatch EXCEPT !.id = d, !.st = st, !.ch = channel, !.cb = cb,
                       !.args = ArgsOf(d), !.deferred = ~has(channel, channels)]

invoke(env, channel, cb) ==
    LET d == Len(dispatch) + 1 IN
    IF validateChannelName(channel)
    THEN /\ ret' = Rejected(env, "invoke", channel, "INVALID_CHANNEL_NAME")
         /\ done' = NoDispatch
         /\ UNCHANGED state
    ELSE IF isDestroyed
    THEN \* inWaitChannel is null: inWaitChannel[channel] is a TypeError
         /\ ret' = Rejected(env, "invoke", channel, "TypeError")
         /\ done' = NoDispatch
         /\ UNCHANGED state
    ELSE /\ d <= env.invokes
         /\ IF invokeNow(channel)
            THEN /\ timers' = after(timers, d)
                 /\ dispatch' = Append(dispatch, NewDispatch(d, channel, cb, "timer"))
                 /\ inWaitChannel' = inWaitChannel
            ELSE /\ inWaitChannel' = pushWaiting(channel, d)
                 /\ dispatch' = Append(dispatch, NewDispatch(d, channel, cb, "queued"))
                 /\ timers' = timers
         /\ ret' = Resolved(env, "invoke", channel)
         /\ done' = NoDispatch
         /\ UNCHANGED <<channels, data, isDestroyed, EVENTS>>

\* ---------------------------------------------------------------- handle
\* a handle that tests the removable flag where it should test writable
handleError_testsRemovable(channel) ==
    IF isDestroyed THEN "EVENT_DESTROYED"
    ELSE IF validateChannelName(channel) THEN "INVALID_CHANNEL_NAME"
    ELSE IF has(channel, channels) /\ ~channels[channel].removable
         THEN "NON_WRITABLE_CHANNEL"
    ELSE "none"

\* a handle that redefines a channel without testing its writable flag
handleError_noWritableTest(channel) ==
    IF isDestroyed THEN "EVENT_DESTROYED"
    ELSE IF validateChannelName(channel) THEN "INVALID_CHANNEL_NAME"
    ELSE "none"

\* the error handle(channel, ...) throws, "none" when it registers
handleError(channel) ==
    IF checkState # "none" THEN checkState
    ELSE IF validateChannelName(channel) THEN "INVALID_CHANNEL_NAME"
    ELSE IF has(channel, channels) /\ ~channels[channel].writable
         THEN "NON_WRITABLE_CHANNEL"
    ELSE "none"

RECURSIVE Reverse(_)
Reverse(q) == IF q = <<>> THEN <<>> ELSE Append(Reverse(Tail(q)), Head(q))

\* a handle that ran the waiting thunks last to first
drainOrder_reversed(queue) == Reverse(queue)

\* the order in which handle runs the waiting thunks (forEach)
drainOrder(queue) == queue

RECURSIVE afterAll(_, _)
afterAll(queue, ds) ==
    IF ds = <<>> THEN queue ELSE afterAll(after(queue, Head(ds)), Tail(ds))

handle(env, channel, listener, removable, writable) ==
    IF handleError(channel) # "none"
    THEN /\ ret' = Rejected(env, "handle", channel, handleError(channel))
         /\ done' = NoDispatch
         /\ UNCHANGED state
    ELSE /\ IF has(channel, inWaitChannel)
            THEN /\ timers' = afterAll(timers, drainOrder(inWaitChannel[channel]))
                 /\ dispatch' = [d \in DOMAIN dispatch |->
                        IF d \in Range(inWaitChannel[channel])
                        THEN [dispatch[d] EXCEPT !.st = "timer", !.handled = TRUE]
                        ELSE dispatch[d]]
                 /\ inWaitChannel' = Delete(inWaitChannel, channel)
            ELSE UNCHANGED <<timers, dispatch, inWaitChannel>>
         /\ channels' = Put(channels, channel,
                [listener |-> listener, removable |-> removable, writable |-> writable])
         /\ ret' = Resolved(env, "handle", channel)
         /\ done' = NoDispatch
         /\ UNCHANGED <<data, isDestroyed, EVENTS>>

\* --------------------------------------------------------- removeChannel
\* a removeChannel that does not test the removable flag
removeChannelError_noRemovableTest(channel) ==
    IF isDestroyed THEN "EVENT_DESTROYED"
    ELSE IF validateChannelName(channel) THEN "INVALID_CHANNEL_NAME"
    ELSE IF ~has(channel, channels) THEN "CHANNEL_NOT_FOUND"
    ELSE "none"

\* a removeChannel that does not test whether the channel exists
removeChannelError_noFoundTest(channel) ==
    IF isDestroyed THEN "EVENT_DESTROYED"
    ELSE IF validateChannelName(channel) THEN "INVALID_CHANNEL_NAME"
    ELSE IF has(channel, channels) /\ ~channels[channel].removable
         THEN "NON_REMOVABLE_CHANNEL"
    ELSE "none"

\* the error removeChannel(channel) throws, "none" when it removes
removeChannelError(channel) ==
    IF checkState # "none" THEN checkState
    ELSE IF validateChannelName(channel) THEN "INVALID_CHANNEL_NAME"
    ELSE IF ~has(channel, channels) THEN "CHANNEL_NOT_FOUND"
    ELSE IF ~channels[channel].removable THEN "NON_REMOVABLE_CHANNEL"
    ELSE "none"

\* the waiting dispatches of a deleted queue never run
Dropped(ds) ==
    [d \in DOMAIN dispatch |->
        IF d \in ds THEN [NoDispatch EXCEPT !.st = "dropped"] ELSE dispatch[d]]

removeChannel(env, op, channel) ==
    IF removeChannelError(channel) # "none"
    THEN /\ ret' = Thrown(env, op, channel, removeChannelError(channel))
         /\ done' = NoDispatch
         /\ UNCHANGED state
    ELSE /\ channels' = Delete(channels, channel)
         /\ IF has(channel, inWaitChannel)
            THEN /\ inWaitChannel' = Delete(inWaitChannel, channel)
                 /\ dispatch' = Dropped(Range(inWaitChannel[channel]))
            ELSE UNCHANGED <<inWaitChannel, dispatch>>
         /\ data' = IF data # NoValue /\ data.channel = channel THEN NoValue ELSE data
         /\ ret' = Returned(env, op, channel, FALSE)
         /\ done' = NoDispatch
         /\ UNCHANGED <<isDestroyed, EVENTS, timers>>

\* ----------------------------------------------------------------- clear
\* a clear that leaves invoke in place
clearedEVENTS_keepsInvoke ==
    [m \in Methods |-> IF m = "invoke" THEN "orig" ELSE "checkState"]

\* EVENTS after Object.keys(EVENTS).forEach(meth => EVENTS[meth] = checkState)
clearedEVENTS == [m \in Methods |-> "checkState"]

clear(env) ==
    IF checkState # "none"
    THEN /\ ret' = Thrown(env, "clear", Undefined, checkState)
         /\ done' = NoDispatch
         /\ UNCHANGED state
    ELSE /\ channels' = EmptyObj
         /\ inWaitChannel' = EmptyObj
         /\ dispatch' = Dropped({d \in DOMAIN dispatch : dispatch[d].st = "queued"})
         /\ EVENTS' = clearedEVENTS
         /\ data' = NoValue
         /\ isDestroyed' = TRUE
         /\ ret' = Returned(env, "clear", Undefined, TRUE)
         /\ done' = NoDispatch
         /\ UNCHANGED timers

\* --------------------------------------------------------------- queries
hasEvent(env, channel) ==
    /\ ret' = Returned(env, "hasEvent", channel, has(channel, channels))
    /\ done' = NoDispatch
    /\ UNCHANGED state

eventsList(env) ==
    /\ ret' = Returned(env, "eventsList", Undefined, FALSE)
    /\ done' = NoDispatch
    /\ UNCHANGED state

\* ------------------------------------------- the handlers of the tree
\* A handler of the component tree is computed on a heap: the components,
\* the registry, the timers set, the hooks and listeners run so far, and
\* whether the handler has thrown (what follows a throw does not run).
\* pending is the set of dispatches whose timer is set at this point.
Heap(pending) ==
    [el |-> elements, reg |-> leisElementMap, tasks |-> tasks, log |-> <<>>,
     thrown |-> FALSE, pending |-> pending, ret |-> 0]

Throw(st) == [st EXCEPT !.thrown = TRUE]

\* return this
Return(st, c) == [st EXCEPT !.ret = c]

\* a value passed where a component is expected: a component, or null
Element(c) == [type |-> "element", chars |-> <<>>, element |-> c]
IsElement(v) == v.type = "element"

\* a hook, a lifecycle listener or a callback of the application that runs
Ran(kind, by, c, arg) == [kind |-> kind, by |-> by, element |-> c, arg |-> arg]

\* setTimeout(callback, delay): the timer waits for the timers set before
\* it with a delay that is not longer, those of the lookups included
Task(st, kind, c, delay) ==
    [kind |-> kind, element |-> c, delay |-> delay, after |-> st.pending,
     by |-> "none", arg |-> Null, counter |-> 0, len |-> 0, allElem |-> <<>>]

setTimeout(st, task) == [st EXCEPT !.tasks = Append(@, task)]

\* the entries of the hook lists that are functions
isFunction(hook) == hook \in {"h1", "h2"}

\* The error reporters passed to callHook: DisplayError, which the core
\* passes and which throws, and "report", a reporter of an extension that
\* returns.
Reporters == {"DisplayError", "report"}
reporterThrows(reporter) == reporter = "DisplayError"

\* the kind of the log entry of an entry of list `name` passed to the reporter
reported(name) == name \o ".reporter"

\* hooks.callHook(name, reporter, c)
RECURSIVE forEachHook(_, _, _, _, _)
forEachHook(st, list, name, reporter, c) ==
    IF list = <<>> \/ st.thrown THEN st
    ELSE LET hook == Head(list)
             s1 == [st EXCEPT !.log = Append(@, Ran(reported(name), hook, c, Null))]
         IN  forEachHook(IF isFunction(hook)
                         THEN [st EXCEPT !.log = Append(@, Ran(name, hook, c, Null))]
                         ELSE IF reporterThrows(reporter) THEN Throw(s1) ELSE s1,
                         Tail(list), name, reporter, c)

callHook(st, name, reporter, c) == forEachHook(st, hooks[name], name, reporter, c)

\* listeners that are called at once whatever the timeout
deferred_never(timeout) == FALSE

\* if (timeout) setTimeout(item, timeout, ...)
deferred(timeout) == timeout > 0

\* handleAllEvent(eventName, c.eventListeners, c, timeout, arg)
RECURSIVE forEachListener(_, _, _, _, _, _)
forEachListener(st, list, eventName, c, timeout, arg) ==
    IF list = <<>> THEN st
    ELSE forEachListener(
            IF deferred(timeout)
            THEN setTimeout(st, [Task(st, "listener", c, timeout)
                                    EXCEPT !.by = Head(list), !.arg = arg])
            ELSE [st EXCEPT !.log = Append(@, Ran(eventName, Head(list), c, arg))],
            Tail(list), eventName, c, timeout, arg)

handleAllEvent(st, eventName, c, timeout, arg) ==
    IF st.thrown THEN st
    ELSE IF st.el[c].cleared THEN Throw(st)
    ELSE IF ~has(eventName, st.el[c].eventListeners) THEN st
    ELSE forEachListener(st, st.el[c].eventListeners[eventName],
                         eventName, c, timeout, arg)

\* TRUE iff the DOM node of a is the DOM node of b or holds it
RECURSIVE contains(_, _, _)
contains(el, a, b) ==
    IF a = b THEN TRUE
    ELSE IF el[b].node = 0 THEN FALSE
    ELSE contains(el, a, el[b].node)

\* p._conf.append(c._conf): the DOM refuses to put a node inside itself
append(st, p, c) ==
    IF st.thrown THEN st
    ELSE IF contains(st.el, c, p) THEN Throw(st)
    ELSE [st EXCEPT !.el[c].node = p]

\* this.contentMap[child.key] = child
putChild(contentMap, child) ==
    IF child \in Range(contentMap) THEN contentMap ELSE Append(contentMap, child)

\* a render that never sets the rendered flag
setRendered_never(st, c) == st

\* this.state.rendered = true
setRendered(st, c) == [st EXCEPT !.el[c].rendered = TRUE]

\* c.render()
RECURSIVE render(_, _)
RECURSIVE forEachChild(_, _, _)
forEachChild(st, c, children) ==
    IF children = <<>> \/ st.thrown THEN st
    ELSE LET child == Head(children)
             s1 == IF st.el[child].cleared \/ st.el[child].parent = 0
                   THEN Throw(st)
                   ELSE IF st.el[child].parent # c THEN st
                   ELSE append(render([st EXCEPT !.el[c].contentMap =
                                           putChild(@, child)], child), c, child)
         IN  forEachChild(s1, c, Tail(children))

render(st, c) ==
    IF st.thrown THEN st
    ELSE IF st.el[c].cleared THEN Throw(st)
    ELSE IF st.el[c].rendered THEN st
    ELSE LET s1 == forEachChild(st, c, st.el[c].content)
             s2 == IF s1.thrown THEN s1 ELSE callHook(s1, "useRender", "DisplayError", c)
             s3 == IF s2.thrown THEN s2 ELSE setRendered(s2, c)
         IN  handleAllEvent(s3, "render", c, 0, Null)

\* p.add(v), v a component or null (a name is looked up by the caller)
add(st, p, v) ==
    LET s1 == handleAllEvent(st, "add", p, 10, v) IN
    IF s1.thrown THEN s1
    ELSE IF ~IsElement(v) THEN Return(s1, p)
    ELSE LET c == v.element
             s2 == [s1 EXCEPT !.el[c].parent = p,
                              !.el[p].contentMap = putChild(@, c)]
             s3 == append(render(s2, c), p, c)
         IN  IF s3.thrown THEN s3
             ELSE Return([s3 EXCEPT !.el[p].content = Append(@, c)], p)

\* c.destroy(): the destruction runs in a timer
destroy(st, v) ==
    IF st.thrown THEN st
    ELSE IF ~IsElement(v) THEN Throw(st)
    ELSE setTimeout(st, Task(st, "destroy", v.element, 100))

\* delete contentMap[key]
removeChild(contentMap, child) == SelectSeq(contentMap, LAMBDA k : k # child)

\* the timer of c.destroy() fires; removed is FALSE iff removeEvent threw
destroyTask(st, c, removed) ==
    LET s1 == handleAllEvent(st, "destroy", c, 0, Null) IN
    IF s1.thrown THEN s1
    ELSE IF ~removed THEN Throw(s1)
    ELSE LET s2 == [s1 EXCEPT !.reg = @ \ {c}]
             p == s2.el[c].parent
         IN  IF p = 0 THEN Throw(s2)
             ELSE IF s2.el[p].cleared THEN Throw(s2)
             ELSE IF c \notin Range(s2.el[p].contentMap) THEN s2
             ELSE LET children == removeChild(s2.el[p].contentMap, c)
                      s3 == [s2 EXCEPT !.el[p].contentMap = children,
                                       !.el[p].content = children]
                  IN  IF s3.el[c].node # p THEN Throw(s3)
                      ELSE setTimeout([s3 EXCEPT !.el[c].node = 0],
                                      Task(s3, "clear", c, 1000))

\* loopObject(this, (value, key) => { delete this[key]; })
clearTask(st, c) ==
    [st EXCEPT !.el[c] = [BaseElement(c) EXCEPT !.cleared = TRUE,
                             !.node = st.el[c].node,
                             !.listeners = st.el[c].listeners]]

\* the first timer of p.removeAll(listener) fires
removeAllTask(st, task) ==
    LET p == task.element IN
    IF st.el[p].cleared THEN Throw(st)
    ELSE setTimeout(st, [Task(st, "tick", p, 100) EXCEPT
                            !.by = task.by,
                            !.len = Len(st.el[p].content),
                            !.allElem = st.el[p].contentMap])

\* if (listener) listener()
tickListener(st, task) ==
    [st EXCEPT !.log = Append(@, Ran("removeAll", task.by, task.element, Null))]

\* the interval timer of removeAll fires.  A tick past the end of allElem
\* throws and leaves the interval running; the counter stops there, every
\* later tick being the same.
tickTask(st, task) ==
    LET counter == task.counter + 1 IN
    IF counter > Len(task.allElem)
    THEN Throw(setTimeout(st, [task EXCEPT !.after = st.pending]))
    ELSE LET s1 == destroy(st, Element(task.allElem[counter])) IN
         IF counter = task.len
         THEN IF task.by # "none" THEN tickListener(s1, task) ELSE s1
         ELSE setTimeout(s1, [task EXCEPT !.counter = counter, !.after = s1.pending])

\* an `add` listener called through its timer
listenerTask(st, task) ==
    [st EXCEPT !.log = Append(@, Ran("add", task.by, task.element, task.arg))]

\* The result callback of a lookup by index name:
\*   add      (e) => this.add(e)                of this.add(name)
\*   addTo    parent => parent.add(element)     of create(tag, {parent: name})
\*   destroy  child => child.destroy()          of this.remove(name)
Closure(kind, c) == [kind |-> kind, element |-> c]

runClosure(st, closure, v) ==
    IF closure.kind = "add" THEN add(st, closure.element, v)
    ELSE IF closure.kind = "addTo"
    THEN IF IsElement(v) THEN add(st, v.element, Element(closure.element))
         ELSE Throw(st)
    ELSE destroy(st, v)

\* a lookup that passes null to its result callback
ToValue_null(slot) == Null

\* the value a result callback receives from the bus
ToValue(slot) == IF slot.element # 0 THEN Element(slot.element) ELSE Null

\* TRUE iff the result callback of dispatch d throws when called with slot
callbackThrows(d, slot, pending) ==
    /\ d \in DOMAIN closures
    /\ runClosure(Heap(pending), closures[d], ToValue(slot)).thrown

\* ------------------------------------------------------------------- exe
\* the value exe passes to the result callback: the shared slot `data`
cbValue(rec, slot) == slot

\* an exe that calls the result callback on a cleared bus too
Finish_ignoresDestroyed(d, rec, slot) ==
    /\ done' = IF rec.cb
               THEN [rec EXCEPT !.st = "done", !.cbn = @ + 1, !.cbv = cbValue(rec, slot)]
               ELSE [rec EXCEPT !.st = "done"]
    /\ dispatch' = [dispatch EXCEPT ![d] = NoDispatch]
    /\ data' = IF rec.cb /\ callbackThrows(d, cbValue(rec, slot), Range(timers) \ {d})
               THEN slot
               ELSE NoValue

\* the rest of exe after `await`: the result callback, then data = null,
\* which a result callback that throws leaves undone
Finish(d, rec, slot) ==
    /\ done' = IF ~isDestroyed /\ rec.cb
               THEN [rec EXCEPT !.st = "done", !.cbn = @ + 1, !.cbv = cbValue(rec, slot)]
               ELSE [rec EXCEPT !.st = "done"]
    /\ dispatch' = [dispatch EXCEPT ![d] = NoDispatch]
    /\ data' = IF ~isDestroyed /\ rec.cb
                  /\ callbackThrows(d, cbValue(rec, slot), Range(timers) \ {d})
               THEN slot
               ELSE NoValue

\* an exe that calls the listener before `await` and again after it
Called_twice(d, l) ==
    [dispatch[d] EXCEPT !.lis = l, !.largs = dispatch[d].args, !.lcalls = @ + 2,
        !.sent = IF Sends(l) THEN SentValue(l, d, dispatch[d].ch) ELSE NoValue]

\* the dispatch record once the listener l has been called
Called(d, l) ==
    [dispatch[d] EXCEPT !.lis = l, !.largs = dispatch[d].args, !.lcalls = @ + 1,
        !.sent = IF Sends(l) THEN SentValue(l, d, dispatch[d].ch) ELSE NoValue]

\* a timer fires: exe of dispatch d runs up to the listener's suspension
exe(d) ==
    LET channel == dispatch[d].ch IN
    IF ~isDestroyed /\ has(channel, channels)
    THEN LET l == channels[channel].listener
             slot == IF Sends(l) THEN SentValue(l, d, channel) ELSE data
         IN  IF IsAsync(l)
             THEN /\ dispatch' = [dispatch EXCEPT ![d] = [Called(d, l) EXCEPT !.st = "suspended"]]
                  /\ data' = slot
                  /\ done' = NoDispatch
             ELSE Finish(d, Called(d, l), slot)
    ELSE Finish(d, dispatch[d], data)

\* a suspended listener resumes, returns, and exe continues after `await`
resume(d) == Finish(d, dispatch[d], data)

\* ---------------------------------------------------------- the actions
\* A call of a method of the bus object goes through EVENTS.
Invoke(env) ==
    \E n \in env.names, cb \in env.callbacks :
        IF EVENTS["invoke"] = "checkState" THEN CheckStateCall(env, "invoke", n)
        ELSE invoke(env, n, cb)

Handle(env) ==
    \E n \in env.names, l \in env.listeners, f \in env.flags :
        IF EVENTS["handle"] = "checkState" THEN CheckStateCall(env, "handle", n)
        ELSE handle(env, n, l, f[1], f[2])

RemoveEvent(env) ==
    \E op \in env.removers, n \in env.names :
        IF EVENTS[op] = "checkState" THEN CheckStateCall(env, op, n)
        ELSE removeChannel(env, op, n)

HasEvent(env) ==
    \E n \in env.names :
        IF EVENTS["hasEvent"] = "checkState" THEN CheckStateCall(env, "hasEvent", n)
        ELSE hasEvent(env, n)

EventsList(env) ==
    IF EVENTS["eventsList"] = "checkState"
    THEN CheckStateCall(env, "eventsList", Undefined)
    ELSE eventsList(env)

Clear(env) ==
    IF EVENTS["clear"] = "checkState" THEN CheckStateCall(env, "clear", Undefined)
    ELSE clear(env)

Fire ==
    /\ timers # <<>>
    /\ exe(Head(timers))
    /\ timers' = Tail(timers)
    /\ ret' = NoCall
    /\ UNCHANGED <<channels, inWaitChannel, isDestroyed, EVENTS>>

Resume ==
    \E d \in DOMAIN dispatch :
        /\ dispatch[d].st = "suspended"
        /\ resume(d)
        /\ ret' = NoCall
        /\ UNCHANGED <<channels, inWaitChannel, isDestroyed, EVENTS, timers>>

\* ------------------------------------------------- addEvent, removeEvent
\* The values passed as listener: a function and its name ("" for an
\* anonymous one), or a value that is not a function.
Function(name) == [type |-> "function", name |-> name]
NotAFunction == [type |-> "object", name |-> EmptyName]

\* generateId(3, 8): a random name, taken to differ from every name in use
generateId(c) == Str(<<"#", ToString(elements[c].callbacks + 1)>>)

\* the name addEvent registers the listener under
eventNameOf(c, listener, eventName) ==
    IF ~Falsy(eventName) THEN eventName
    ELSE IF listener.name.chars # <<>> THEN listener.name
    ELSE generateId(c)

\* a DOM listener of a node: addEventListener(type, callback, options),
\* options being the capture flag
DomListener(eventType, callback, options) ==
    [type |-> eventType, callback |-> callback, capture |-> options]

\* the arguments of a call of addEvent or removeEvent on component c
EventCall(c, eventType, listener, eventName, options) ==
    [element |-> c, type |-> eventType, listener |-> listener,
     name |-> eventName, options |-> options]

\* an addEvent that overwrites the listener registered under the name
uniqueTypeError_never(name, registered) == FALSE

\* TRUE iff addEvent raises UniqueType: has(eventName, eventMap[eventType])
uniqueTypeError(name, registered) == has(name, registered)

\* component c: addEvent(eventType, listener, eventName, options)
addEvent(env, c, eventType, listener, eventName, options) ==
    LET e == elements[c]
        callback == e.callbacks + 1
        types == IF has(eventType, e.eventMap) THEN e.eventMap
                 ELSE Put(e.eventMap, eventType, EmptyObj)
        name == eventNameOf(c, listener, eventName)
        call == EventCall(c, eventType, listener, eventName, options)
    IN  IF listener.type # "function"
        THEN /\ ret' = Returned(env, "addEvent", call, FALSE)
             /\ UNCHANGED elements
        ELSE IF uniqueTypeError(name, types[eventType])
        THEN /\ ret' = Thrown(env, "addEvent", call, "UniqueType")
             /\ elements' = [elements EXCEPT ![c].eventMap = types]
        ELSE /\ callback <= env.callbacks
             /\ ret' = Returned(env, "addEvent", call, FALSE)
             /\ elements' = [elements EXCEPT
                    ![c].eventMap = Put(types, eventType,
                                        Put(types[eventType], name, callback)),
                    ![c].listeners = @ \cup {DomListener(eventType, callback, options)},
                    ![c].callbacks = callback]

\* component c: removeEvent(eventType, eventName, options)
removeEvent(env, c, eventType, eventName, options) ==
    LET e == elements[c] IN
    /\ ret' = Returned(env, "removeEvent",
                       EventCall(c, eventType, NotAFunction, eventName, options), FALSE)
    /\ IF has(eventType, e.eventMap) /\ has(eventName, e.eventMap[eventType])
       THEN elements' = [elements EXCEPT
                ![c].listeners = @ \ {DomListener(eventType,
                                        e.eventMap[eventType][eventName], options)},
                ![c].eventMap = Put(e.eventMap, eventType,
                                    Delete(e.eventMap[eventType], eventName))]
       ELSE UNCHANGED elements

AddEvent(env) ==
    \E c \in Held(env), t \in env.types, l \in env.functions,
       n \in env.eventNames \cup {Undefined}, o \in env.options :
        /\ addEvent(env, c, t, l, n, o)
        /\ done' = NoDispatch
        /\ log' = <<>>
        /\ UNCHANGED <<state, leisElementMap, tasks, closures, hooks>>

ElementRemoveEvent(env) ==
    \E c \in Held(env), t \in env.types, n \in env.eventNames, o \in env.options :
        /\ removeEvent(env, c, t, n, o)
        /\ done' = NoDispatch
        /\ log' = <<>>
        /\ UNCHANGED <<state, leisElementMap, tasks, closures, hooks>>


\* ------------------------------------------------ the actions of the tree
\* a handler that calls no method of the Indexed Lookup Registry
NoLookup ==
    /\ ret' = NoCall
    /\ done' = NoDispatch
    /\ UNCHANGED state

\* the heap a handler leaves; a throw is logged last
Leaves(st) ==
    /\ elements' = st.el
    /\ leisElementMap' = st.reg
    /\ tasks' = st.tasks
    /\ log' = IF st.thrown THEN Append(st.log, Ran("throw", "none", 0, Null))
              ELSE st.log

\* getObjectByIndexName(name, true, clb): indexedElementEvent.invoke(name, clb)
getObjectByIndexName(env, name, closure) ==
    /\ invoke(env, name, TRUE)
    /\ closures' = IF Len(dispatch') > Len(dispatch)
                   THEN Append(closures, closure)
                   ELSE closures

\* hooks[name].push(hook)
Use(env) ==
    \E name \in env.hookNames, hook \in env.hooks :
        /\ Len(hooks[name]) < env.maxHooks
        /\ hooks' = [hooks EXCEPT ![name] = Append(@, hook)]
        /\ log' = <<>>
        /\ NoLookup
        /\ UNCHANGED <<elements, leisElementMap, tasks, closures>>

\* an extension calls hooks.callHook(name, reporter, c)
CallHook(env) ==
    \E name \in env.hookNames, reporter \in env.reporters, c \in Held(env) :
        /\ Leaves(callHook([Heap(Range(timers)) EXCEPT
                                !.log = <<Ran("callHook", reporter, c, Null)>>],
                            name, reporter, c))
        /\ NoLookup
        /\ UNCHANGED <<closures, hooks>>

\* The options of create: content (a list of components), parent (null, a
\* component or an index name), data.id (null or an index name).
Options(content, parent, id) == [content |-> content, parent |-> parent, id |-> id]

\* new BaseElement(...), then SetOptions up to options.parent; a
\* constructor that throws leaves no component
construct(st, k, options) ==
    LET s1 == callHook([st EXCEPT !.el = Append(@, BaseElement(k))], "useInit", "DisplayError", k)
        s2 == [s1 EXCEPT !.el = [c \in DOMAIN s1.el |->
                    IF c = k THEN [s1.el[c] EXCEPT !.content = options.content]
                    ELSE IF c \in Range(options.content)
                         THEN [s1.el[c] EXCEPT !.parent = k]
                         ELSE s1.el[c]]]
    IN  IF s1.thrown THEN [s1 EXCEPT !.el = st.el]
        ELSE IF IsElement(options.parent) THEN add(s2, options.parent.element, Element(k))
        ELSE s2

\* the rest of create: the useOption hooks, then the registry
register(st, k) ==
    LET s1 == callHook(st, "useOption", "DisplayError", k) IN
    IF s1.thrown THEN s1 ELSE [s1 EXCEPT !.reg = @ \cup {k}]

\* a setter that sets indexName whether or not handle has resolved
setId_unchecked(st, c, value) ==
    [st EXCEPT !.el[c].indexName = value,
               !.log = Append(@, Ran("id", "none", c, value))]

\* the data.id setter: indexName is set once handle has resolved
setId(st, c, value) ==
    LET s1 == [st EXCEPT !.log = Append(@, Ran("id", "none", c, value))] IN
    IF handleError(value) = "none" THEN [s1 EXCEPT !.el[c].indexName = value] ELSE s1

\* the lists of distinct components of S
RECURSIVE Lists(_)
Lists(S) == {<<>>} \cup UNION {{<<c>> \o l : l \in Lists(S \ {c})} : c \in S}

\* create(tag, options)
Create(env) ==
    \E content \in Lists(Held(env) \cap env.children),
       parent \in {Null} \cup {Element(p) : p \in Held(env) \cap env.parents}
                         \cup env.parentNames,
       id \in {Null} \cup env.ids :
        LET k == Len(elements) + 1
            options == Options(content, parent, id)
            s1 == construct(Heap(Range(timers)), k, options)
        IN  /\ Len(elements) <= env.creates
            /\ parent.type = "string" => id = Null
            /\ IF s1.thrown
               THEN NoLookup /\ Leaves(s1) /\ closures' = closures
               ELSE /\ IF parent.type = "string"
                       THEN getObjectByIndexName(env, parent, Closure("addTo", k))
                       ELSE IF id # Null
                       THEN /\ handle(env, id, sendElement(k), idFlags[1], idFlags[2])
                            /\ closures' = closures
                       ELSE NoLookup /\ closures' = closures
                    /\ Leaves(register(IF id # Null THEN setId(s1, k, id) ELSE s1, k))
            /\ hooks' = hooks

\* c.data.id = value
SetId(env) ==
    \E c \in Held(env), value \in env.names :
        /\ handle(env, value, sendElement(c), idFlags[1], idFlags[2])
        /\ Leaves(setId(Heap(Range(timers')), c, value))
        /\ UNCHANGED <<closures, hooks>>

\* c.once(e, listener)
Once(env) ==
    \E c \in Held(env) \cap env.listening, e \in env.events :
        /\ ~has(e, elements[c].eventListeners)
        /\ elements' = [elements EXCEPT ![c].eventListeners = Put(@, e, <<e>>)]
        /\ log' = <<>>
        /\ NoLookup
        /\ UNCHANGED <<leisElementMap, tasks, closures, hooks>>

\* c.render()
Render(env) ==
    \E c \in Held(env) :
        /\ Leaves(render(Heap(Range(timers)), c))
        /\ NoLookup
        /\ UNCHANGED <<closures, hooks>>

\* p.add(c)
Add(env) ==
    \E p \in Held(env) \cap env.parents, c \in Held(env) \cap env.children :
        /\ Len(elements[p].content) < env.content
        /\ Len(tasks) < env.tasks
        /\ Leaves(add(Heap(Range(timers)), p, Element(c)))
        /\ NoLookup
        /\ UNCHANGED <<closures, hooks>>

\* p.add(name)
AddName(env) ==
    \E p \in Held(env), name \in env.names :
        /\ getObjectByIndexName(env, name, Closure("add", p))
        /\ Leaves(add(Heap(Range(timers')), p, name))
        /\ hooks' = hooks

\* c.destroy(), and p.remove(c) which is the same call
Destroy(env) ==
    \E c \in Held(env) \cap env.destroyed :
        /\ Len(SelectSeq(tasks, LAMBDA t : t.kind = "destroy" /\ t.element = c))
                < env.destroys
        /\ Leaves(destroy(Heap(Range(timers)), Element(c)))
        /\ NoLookup
        /\ UNCHANGED <<closures, hooks>>

\* p.remove(name)
Remove(env) ==
    \E p \in Held(env), name \in env.names :
        /\ getObjectByIndexName(env, name, Closure("destroy", p))
        /\ Leaves(Heap(Range(timers')))
        /\ hooks' = hooks

\* p.removeAll(listener)
RemoveAll(env) ==
    \E p \in Held(env), listener \in env.listeners :
        /\ Len(tasks) < env.tasks
        /\ Leaves(setTimeout(Heap(Range(timers)),
                    [Task(Heap(Range(timers)), "removeAll", p, 100) EXCEPT !.by = listener]))
        /\ NoLookup
        /\ UNCHANGED <<closures, hooks>>

\* the timers of the tree that may fire next: those that wait for no timer
\* set before them with a delay that is not longer
Runnable(i) ==
    /\ \A j \in 1..(i - 1) : tasks[j].delay > tasks[i].delay
    /\ tasks[i].after \cap Range(timers) = {}

\* tasks without the i-th
Without(i) == [j \in 1..(Len(tasks) - 1) |-> IF j < i THEN tasks[j] ELSE tasks[j + 1]]

\* a timer of the tree fires
Run(env) ==
    \E i \in DOMAIN tasks :
        LET task == tasks[i]
            c == task.element
            st == [Heap(Range(timers)) EXCEPT !.tasks = Without(i)]
            named == ~elements[c].cleared /\ elements[c].indexName # Null
        IN  /\ Runnable(i)
            /\ IF task.kind = "destroy"
               THEN IF named
                    THEN /\ removeChannel(env, "removeEvent", elements[c].indexName)
                         /\ Leaves(destroyTask(st, c,
                                removeChannelError(elements[c].indexName) = "none"))
                    ELSE NoLookup /\ Leaves(destroyTask(st, c, TRUE))
               ELSE /\ NoLookup
                    /\ Leaves(CASE task.kind = "clear" -> clearTask(st, c)
                                [] task.kind = "removeAll" -> removeAllTask(st, task)
                                [] task.kind = "tick" -> tickTask(st, task)
                                [] OTHER -> listenerTask(st, task))
            /\ UNCHANGED <<closures, hooks>>

\* the timer of a lookup fires: exe, whose result callback works on the tree
Lookup ==
    /\ Fire
    /\ Leaves(IF done'.cbn = 1
              THEN runClosure(Heap(Range(timers')), closures[done'.id], ToValue(done'.cbv))
              ELSE Heap(Range(timers')))
    /\ UNCHANGED <<closures, hooks>>

\* ------------------------------------------------------ specifications
\* Spec: an application whose listeners may be asynchronous and whose
\* channels are either removable and writable or neither; the dispatches
\* are observed (done), the outcomes of the calls are not.
DispatchEnv ==
    [names |-> ValidNames, listeners |-> Listeners,
     flags |-> {<<TRUE, TRUE>>, <<FALSE, FALSE>>}, callbacks |-> BOOLEAN,
     removers |-> {"removeEvent"}, calls |-> FALSE, invokes |-> MaxDispatch]

Next ==
    \/ Invoke(DispatchEnv) /\ UNCHANGED tree
    \/ Handle(DispatchEnv) /\ UNCHANGED tree
    \/ RemoveEvent(DispatchEnv) /\ UNCHANGED tree
    \/ Clear(DispatchEnv) /\ UNCHANGED tree
    \/ Fire /\ UNCHANGED tree
    \/ Resume /\ UNCHANGED tree

Spec == Init /\ [][Next]_vars

\* SpecCalls: an application that calls every method with every kind of
\* name and of flags, with synchronous listeners, and passes a result
\* callback to invoke; the outcome of each call is observed (ret).
CallEnv ==
    [names |-> ChannelNames, listeners |-> {"l1", "l3"},
     flags |-> BOOLEAN \X BOOLEAN, callbacks |-> {TRUE},
     removers |-> {"removeEvent", "removeChannel"}, calls |-> TRUE,
     invokes |-> MaxCallDispatch]

NextCalls ==
    \/ Invoke(CallEnv) /\ UNCHANGED tree
    \/ Handle(CallEnv) /\ UNCHANGED tree
    \/ RemoveEvent(CallEnv) /\ UNCHANGED tree
    \/ HasEvent(CallEnv) /\ UNCHANGED tree
    \/ EventsList(CallEnv) /\ UNCHANGED tree
    \/ Clear(CallEnv) /\ UNCHANGED tree
    \/ Fire /\ UNCHANGED tree

SpecCalls == Init /\ [][NextCalls]_vars

\* SpecEvents: an application that adds DOM listeners to `main` and removes
\* them, with and without a name, with and without the capture option; the
\* outcome of each call is observed (ret).
EventEnv ==
    [elements |-> {1}, types |-> {"click", "input"},
     functions |-> {Function(NameA), Function(EmptyName), NotAFunction},
     eventNames |-> {NameA, NameB}, options |-> BOOLEAN,
     calls |-> TRUE, callbacks |-> MaxAddEvent]

NextEvents ==
    \/ AddEvent(EventEnv)
    \/ ElementRemoveEvent(EventEnv)

SpecEvents == Init /\ [][NextEvents]_vars


\* The state once the module is loaded: `main.data.id = "main"` has
\* registered the channel "main" of the Indexed Lookup Registry.
InitTree ==
    /\ TreeLoaded
    /\ channels = Put(EmptyObj, NameMain, mainChannel)
    /\ inWaitChannel = EmptyObj
    /\ data = NoValue
    /\ isDestroyed = FALSE
    /\ EVENTS = [m \in Methods |-> "orig"]
    /\ timers = <<>>
    /\ dispatch = <<>>
    /\ ret = NoCall
    /\ done = NoDispatch

\* SpecLookup: an application that creates components, gives them the
\* index name "a" (as an option of create or by assignment), refers to
\* that name before and after (add(name), the parent option of create) and
\* destroys the first component it has created; `main` is one of its
\* components.
LookupEnv ==
    [elements |-> 1..(MaxCreate + 1), children |-> {}, parents |-> {},
     parentNames |-> {NameA}, ids |-> {NameA}, names |-> {NameA},
     creates |-> MaxCreate, invokes |-> MaxLookup,
     destroyed |-> {2}, destroys |-> MaxDestroy, calls |-> FALSE]

NextLookup ==
    \/ Create(LookupEnv)
    \/ SetId(LookupEnv)
    \/ AddName(LookupEnv)
    \/ Destroy(LookupEnv)
    \/ Run(LookupEnv)
    \/ Lookup

SpecLookup == InitTree /\ [][NextLookup]_vars

\* SpecRefer: an application that creates components, gives them the index
\* name "a" and refers to that name before and after, and destroys nothing.
\* The host fires every timer that is set.
ReferEnv ==
    [elements |-> 1..(MaxCreate + 1), children |-> {}, parents |-> {},
     parentNames |-> {NameA}, ids |-> {NameA}, names |-> {NameA},
     creates |-> MaxCreate, invokes |-> MaxRefer, calls |-> FALSE]

NextRefer ==
    \/ Create(ReferEnv)
    \/ SetId(ReferEnv)
    \/ AddName(ReferEnv)
    \/ Lookup

\* the host removes the earliest timer from its list and runs it; among
\* the steps of NextRefer these are the steps of Lookup
Expire ==
    /\ timers # <<>>
    /\ timers' = Tail(timers)

SpecRefer == InitTree /\ [][NextRefer]_vars /\ WF_timers(Expire)

\* SpecTree: an application that creates components with the content,
\* parent and data.id options, listens to their destruction, renders them,
\* destroys them and removes all the children of one; it refers to no
\* index name and leaves `main` alone.
TreeEnv ==
    [elements |-> 2..(MaxTree + 1), children |-> 2..(MaxTree + 1),
     parents |-> 2..(MaxTree + 1), parentNames |-> {}, ids |-> {NameA},
     creates |-> MaxTree, events |-> {"destroy"}, listening |-> 2..(MaxTree + 1),
     listeners |-> {"cb"},
     destroyed |-> 2..(MaxTree + 1), destroys |-> MaxDestroy,
     tasks |-> MaxTask, invokes |-> MaxLookup, calls |-> FALSE]

NextTree ==
    \/ Create(TreeEnv)
    \/ Once(TreeEnv)
    \/ Render(TreeEnv)
    \/ Destroy(TreeEnv)
    \/ RemoveAll(TreeEnv)
    \/ Run(TreeEnv)

SpecTree == InitTree /\ [][NextTree]_vars

\* SpecRender: an application that adds entries to the list of pre-render
\* hooks (the function h1, and h0 which is not a function), creates
\* components with the content and parent options, listens to their
\* rendering, adds components to the first of them (itself included) and
\* renders them.  It destroys nothing, refers to no index name and leaves
\* `main` alone.
RenderEnv ==
    [elements |-> 2..(MaxTree + 1), children |-> 2..(MaxTree + 1),
     parents |-> {2}, parentNames |-> {}, ids |-> {},
     creates |-> MaxTree, events |-> {"render"}, listening |-> 2..(MaxTree + 1),
     hookNames |-> {"useRender"}, hooks |-> {"h1", "h0"}, maxHooks |-> MaxHook,
     content |-> MaxContent, tasks |-> MaxTask, invokes |-> MaxLookup,
     calls |-> FALSE]

NextRender ==
    \/ Use(RenderEnv)
    \/ Create(RenderEnv)
    \/ Once(RenderEnv)
    \/ Add(RenderEnv)
    \/ Render(RenderEnv)

SpecRender == InitTree /\ [][NextRender]_vars

\* SpecHooks: extensions that add entries to the three hook lists (the
\* function h1, and h0 which is not a function) and call callHook with a
\* reporter of their own or with the core's; an application that creates
\* components, with and without a parent, and renders them.  `main` is
\* left alone.
HookEnv ==
    [elements |-> 2..(MaxTree + 1), children |-> {}, parents |-> 2..(MaxTree + 1),
     parentNames |-> {}, ids |-> {}, creates |-> MaxTree,
     hookNames |-> HookNames, hooks |-> {"h1", "h0"}, maxHooks |-> MaxHook,
     reporters |-> Reporters, invokes |-> MaxLookup, calls |-> FALSE]

NextHooks ==
    \/ Use(HookEnv)
    \/ CallHook(HookEnv)
    \/ Create(HookEnv)
    \/ Render(HookEnv)

SpecHooks == InitTree /\ [][NextHooks]_vars

\* SpecAdd: an application that creates components with the content and
\* parent options, listens to `add` on the first component it has created,
\* adds `main` and the first two components to it (as content, or by add)
\* and every later one through the parent option, and renders them; the
\* host fires the timers of the `add` listeners.
AddEnv ==
    [elements |-> 1..(MaxTree + 1), children |-> {1, 2, 3},
     parents |-> {2}, parentNames |-> {}, ids |-> {}, creates |-> MaxTree,
     events |-> {"add"}, listening |-> {2}, content |-> MaxContent,
     tasks |-> MaxTask,
     invokes |-> MaxLookup, calls |-> FALSE]

NextAdd ==
    \/ Create(AddEnv)
    \/ Once(AddEnv)
    \/ Add(AddEnv)
    \/ Render(AddEnv)
    \/ Run(AddEnv)

SpecAdd == InitTree /\ [][NextAdd]_vars

\* SpecLife: an application that creates components with the content and
\* parent options, adds them to the first of them, renders them and
\* destroys them, before and after their timers have fired; `main` is a
\* component it may give as content or add, and it refers to no index name.
LifeEnv ==
    [elements |-> 1..(MaxTree + 1), children |-> 1..(MaxTree + 1),
     parents |-> {2}, parentNames |-> {}, ids |-> {}, creates |-> MaxTree,
     content |-> MaxContent, tasks |-> MaxTask + 1,
     destroyed |-> 2..(MaxTree + 1), destroys |-> MaxDestroy,
     invokes |-> MaxLookup, calls |-> FALSE]

NextLife ==
    \/ Create(LifeEnv)
    \/ Add(LifeEnv)
    \/ Render(LifeEnv)
    \/ Destroy(LifeEnv)
    \/ Run(LifeEnv)

SpecLife == InitTree /\ [][NextLife]_vars

\* SpecRemoveAll: an application that creates components with the content
\* and parent options, renders them and removes all the children of one,
\* with a callback, while no other timer is set; it destroys nothing
\* itself, refers to no index name and leaves `main` alone.  The host
\* fires every timer that is set.
RemoveAllEnv ==
    [elements |-> 2..(MaxTree + 1), children |-> 2..(MaxTree + 1),
     parents |-> 2..(MaxTree + 1), parentNames |-> {}, ids |-> {},
     creates |-> MaxTree, listeners |-> {"cb"}, tasks |-> MaxTask,
     invokes |-> MaxLookup, calls |-> FALSE]

NextRemoveAll ==
    \/ Create(RemoveAllEnv)
    \/ Render(RemoveAllEnv)
    \/ RemoveAll(RemoveAllEnv)
    \/ Run(RemoveAllEnv)

SpecRemoveAll == InitTree /\ [][NextRemoveAll]_vars /\ WF_vars(Run(RemoveAllEnv))

\* SpecNames: an application that creates components, with and without a
\* parent, gives them the index names "a" and "b" (as an option of create
\* or by assignment, one after the other) and destroys them; it looks no
\* name up and leaves `main` alone.
NamesEnv ==
    [elements |-> 2..(MaxTree + 1), children |-> {}, parents |-> 2..(MaxTree + 1),
     parentNames |-> {}, ids |-> {NameA}, names |-> {NameA, NameB},
     creates |-> MaxTree, destroyed |-> 2..(MaxTree + 1), destroys |-> MaxDestroy,
     invokes |-> MaxLookup, calls |-> FALSE]

NextNames ==
    \/ Create(NamesEnv)
    \/ SetId(NamesEnv)
    \/ Destroy(NamesEnv)
    \/ Run(NamesEnv)

SpecNames == InitTree /\ [][NextNames]_vars

\* SpecAddName: an application that creates components, gives them the
\* index name "a", listens to `add` on them and adds to them by index name;
\* the host fires the timers of the lookups and of the `add` listeners.
\* `main` is left alone.
AddNameEnv ==
    [elements |-> 2..(MaxTree + 1), children |-> {}, parents |-> {},
     parentNames |-> {}, ids |-> {NameA}, names |-> {NameA},
     creates |-> MaxTree, events |-> {"add"}, listening |-> 2..(MaxTree + 1),
     invokes |-> MaxLookup, calls |-> FALSE]

NextAddName ==
    \/ Create(AddNameEnv)
    \/ Once(AddNameEnv)
    \/ AddName(AddNameEnv)
    \/ Run(AddNameEnv)
    \/ Lookup

SpecAddName == InitTree /\ [][NextAddName]_vars

\* ========================================================== properties
Pending(rec) == rec.st \in {"queued", "timer"}

\* the dispatch whose exe runs in this step, 0 when no timer fires
Fired == IF timers # <<>> /\ timers' = Tail(timers) THEN Head(timers) ELSE 0

\* C1: an invoke(n, cb, args) made while no channel n is registered, and
\* followed by handle(n, listener), has listener called exactly once with
\* those args, and cb is then called once with the value that listener run
\* passed to event.send.  Stated of the dispatch that completes: when its
\* listener has run once and its callback has been called, the callback
\* received the value the listener sent.
C1_DeferredCallbackGetsSentValue ==
    (done.id # 0 /\ done.deferred /\ done.handled /\ done.lcalls = 1
        /\ done.largs = done.args /\ done.cb /\ done.cbn = 1)
    => done.cbv = done.sent

\* C2: the dispatches of the invoke calls made before handle(n) run in the
\* order of the calls, and none runs before handle(n) has been called: the
\* exe of a deferred dispatch runs only once a handle call has run its
\* thunk and once no deferred dispatch on the same channel made earlier is
\* still waiting.
C2_DeferredFifo ==
    [][\A d \in DOMAIN dispatch :
         (Fired = d /\ dispatch[d].deferred)
         => /\ dispatch[d].handled
            /\ \A e \in 1..(d - 1) :
                 (dispatch[e].deferred /\ dispatch[e].ch = dispatch[d].ch)
                 => ~Pending(dispatch[e])]_vars

\* two invokes deferred on one channel: the listener of the first is
\* suspended, the second has completed after it
C2_Witness ==
    /\ Len(dispatch) >= 2
    /\ dispatch[1].st = "suspended" /\ dispatch[1].deferred /\ dispatch[1].handled
    /\ done.id = 2 /\ done.deferred /\ done.handled /\ done.lcalls = 1
    /\ done.ch = dispatch[1].ch

\* C9: the result callback of a dispatch receives the value passed to
\* event.send by the listener run of that dispatch, and no value when that
\* run never called send.
C9_CallbackGetsOwnValue ==
    (done.id # 0 /\ done.cbn = 1) => done.cbv = done.sent

\* C11: the dispatches queued before handle(n) run before the dispatch of
\* any invoke(n) made after that handle call: on one channel the dispatches
\* run in the order of their invoke calls, across the handle call.  When the
\* exe of a dispatch runs, no dispatch made earlier on the same channel is
\* still queued or awaiting its timer.
C11_ChannelOrderAcrossHandle ==
    [][\A d \in DOMAIN dispatch :
         Fired = d
         => \A e \in 1..(d - 1) :
              dispatch[e].ch = dispatch[d].ch => ~Pending(dispatch[e])]_vars

\* a dispatch queued before handle(n) has run its listener, and a dispatch
\* invoked on the registered channel n has completed after it
C11_Witness ==
    /\ Len(dispatch) >= 2
    /\ dispatch[1].st = "suspended" /\ dispatch[1].deferred /\ dispatch[1].handled
    /\ done.id = 2 /\ ~done.deferred /\ done.lcalls = 1
    /\ done.ch = dispatch[1].ch


\* ------------------------------------------------ lookups by index name
\* the component the index name x resolves to
Resolves(x) == ElementOf(channels[x].listener)

\* c is a child of p: parent pointer, child list, key map and DOM
IsChild(el, c, p) ==
    /\ el[c].parent = p
    /\ c \in Range(el[p].content)
    /\ c \in Range(el[p].contentMap)
    /\ el[c].node = p

\* C13: a reference by index name resolves to the component whose data.id
\* is that name, also when it was made before the name was assigned.  When
\* the dispatch of a lookup runs on a registered name, its result callback
\* receives the component bearing the name: for P.add(name) that component
\* becomes a child of P, for create(tag, {parent: name}) the new component
\* becomes a child of it (the DOM refusing only to put a node inside
\* itself, and P still having its fields).  A lookup that waits for its
\* name is dispatched by the assignment of the name, and every dispatch
\* that has its timer eventually runs.
C13_NameResolvesLate ==
    /\ [][\A d \in DOMAIN dispatch :
            (Fired = d /\ has(dispatch[d].ch, channels))
            => LET c == Resolves(dispatch[d].ch)
                   p == closures[d].element
               IN  /\ c # 0 /\ elements[c].indexName = dispatch[d].ch
                   /\ done'.cbn = 1 /\ done'.cbv.element = c
                   /\ (closures[d].kind = "add" /\ ~elements[p].cleared
                            /\ ~contains(elements, c, p))
                       => IsChild(elements', c, p)
                   /\ (closures[d].kind = "addTo" /\ ~contains(elements, p, c))
                       => IsChild(elements', p, c)]_vars
    /\ [][\A d \in DOMAIN dispatch :
            (dispatch[d].st = "queued" /\ has(dispatch[d].ch, channels'))
            => dispatch'[d].st = "timer"]_vars
    /\ \A d \in 1..MaxRefer :
         (Len(dispatch) >= d /\ dispatch[d].st = "timer") ~> (done.id = d)

\* a lookup made by add(name) before the name was assigned has run, and
\* the component that was given the name is now a child of the adder
C13_Witness ==
    /\ done.id # 0 /\ done.deferred /\ done.handled /\ done.cbn = 1
    /\ done.cbv.element # 0
    /\ closures[done.id].kind = "add"
    /\ IsChild(elements, done.cbv.element, closures[done.id].element)

\* every timer of the tree and of the registry has fired
Quiescent == tasks = <<>> /\ timers = <<>>

\* the components create has made
Created == 2..Len(elements)

\* c is reachable from the Component Registry
Registered(c) == c \in leisElementMap

\* c is reachable from the child collection of p
InCollection(el, c, p) ==
    /\ ~el[p].cleared
    /\ c \in Range(el[p].content) \cup Range(el[p].contentMap)

\* C14 (as claimed): when the destruction of P has run (P leaves the
\* Component Registry) and no timer is left, a component C that was created
\* with parent: P (its surface is attached to the surface of P) is reachable
\* neither from the Component Registry nor from the child collection of P.
C14_DestroyReachesChildren ==
    [][\A p \in Created, c \in Created :
         (/\ Registered(p) /\ ~Registered(p)' /\ Quiescent'
          /\ Registered(c) /\ IsChild(elements, c, p))
         => ~Registered(c)' /\ ~InCollection(elements', c, p)]_vars

\* the timer of a destroy() of c fires in this step
DestroyRuns(c) ==
    Len(SelectSeq(tasks', LAMBDA t : t.kind = "destroy" /\ t.element = c))
        < Len(SelectSeq(tasks, LAMBDA t : t.kind = "destroy" /\ t.element = c))

\* C15 (as claimed): a destroy() that was called completes.  When its timer
\* has fired, the destroy listeners of the component have run, its index
\* name is no channel of the Indexed Lookup Registry, the component is not
\* in the Component Registry, and it is neither in the child list nor in
\* the key map of its parent, if it has one.
C15_DestroyCompletes ==
    [][\A c \in Created :
         (DestroyRuns(c) /\ ~elements[c].cleared)
         => LET p == elements[c].parent IN
            /\ has("destroy", elements[c].eventListeners)
                    => Ran("destroy", "destroy", c, Null) \in Range(log')
            /\ elements[c].indexName # Null => ~has(elements[c].indexName, channels')
            /\ ~Registered(c)'
            /\ (p # 0 /\ ~elements[p].cleared)
                    => /\ c \notin Range(elements'[p].content)
                       /\ c \notin Range(elements'[p].contentMap)]_vars

\* the hooks and listeners of kind `kind` that ran for c, in a log
RanFor(l, kind, c) == SelectSeq(l, LAMBDA r : r.kind = kind /\ r.element = c)

\* C16 (as claimed): render() is idempotent.  render() of a rendered component leaves
\* the heap as it is and runs nothing.  In every step, whatever it calls,
\* a rendered component stays rendered and no pre-render hook or render
\* listener runs for it; a component that becomes rendered has had every
\* pre-render hook and every render listener run once, in order, and every
\* child of its list whose recorded parent it is has been rendered and
\* attached; and hooks and listeners run for no other component.
C16_RenderIdempotent ==
    /\ [](\A c \in DOMAIN elements :
            elements[c].rendered
            => render(Heap(Range(timers)), c) = Heap(Range(timers)))
    /\ [][\A c \in DOMAIN elements :
            LET first == ~elements[c].rendered /\ elements'[c].rendered
                listeners == IF has("render", elements[c].eventListeners)
                             THEN elements[c].eventListeners["render"] ELSE <<>>
            IN  /\ elements[c].rendered => elements'[c].rendered
                /\ ~first => /\ RanFor(log', "useRender", c) = <<>>
                             /\ RanFor(log', "render", c) = <<>>
                /\ first =>
                     /\ RanFor(log', "useRender", c)
                            = [i \in DOMAIN hooks["useRender"] |->
                                 Ran("useRender", hooks["useRender"][i], c, Null)]
                     /\ RanFor(log', "render", c)
                            = [i \in DOMAIN listeners |->
                                 Ran("render", listeners[i], c, Null)]
                     /\ \A child \in Range(elements'[c].content) :
                            elements'[child].parent = c
                            => /\ elements'[child].rendered
                               /\ elements'[child].node = c
                               /\ child \in Range(elements'[c].contentMap)]_vars

\* the timers of destroy() that are set
Destroying(ts) == SelectSeq(ts, LAMBDA t : t.kind = "destroy")

\* C17 (as claimed): in the step in which an interval tick of
\* p.removeAll(callback) calls callback, every child the removeAll has
\* taken from p is absent from the Component Registry and from the child
\* collection of p; and no step starts more than one destruction.
C17_CallbackAfterLastDestroy ==
    [][/\ \A i \in DOMAIN tasks :
            (/\ tasks[i].kind = "tick"
             /\ Ran("removeAll", tasks[i].by, tasks[i].element, Null) \in Range(log'))
            => \A c \in Range(tasks[i].allElem) :
                  ~Registered(c)' /\ ~InCollection(elements', c, tasks[i].element)
       /\ Len(Destroying(tasks')) <= Len(Destroying(tasks)) + 1]_vars

\* C18 (as claimed): a component C whose parent is P is in the child list
\* and in the key map of P if and only if C has not been destroyed.  A
\* component of the Component Registry has not been destroyed, and it is in
\* both; a component whose destroy timer has fired is in neither.
C18_ChildCollection ==
    /\ [](\A c \in Created :
            LET p == elements[c].parent IN
            (Registered(c) /\ ~elements[c].cleared /\ p # 0 /\ ~elements[p].cleared)
            => /\ c \in Range(elements[p].content)
               /\ c \in Range(elements[p].contentMap))
    /\ [][\A c \in Created :
            LET p == elements[c].parent IN
            (DestroyRuns(c) /\ ~elements[c].cleared /\ p # 0 /\ ~elements[p].cleared)
            => /\ c \notin Range(elements'[p].content)
               /\ c \notin Range(elements'[p].contentMap)]_vars

\* the step assigns index name x to component c (c.data.id = x, or the
\* data.id option of create)
Assigns(l, c, x) == Ran("id", "none", c, x) \in Range(l)

\* C19: while an index name x stays registered, its channel is the same in
\* every step, the assignment of x to another component included, and a
\* lookup of x that runs hands the result callback the component of that
\* channel.  The channel goes only when it is removed, which the
\* destruction of a component does.
C19_IndexNameStable ==
    /\ [][\A x \in LookupEnv.names :
            (has(x, channels) /\ has(x, channels'))
            => /\ channels'[x] = channels[x]
               /\ Resolves(x)' = Resolves(x)]_vars
    /\ [][\A d \in DOMAIN dispatch :
            (Fired = d /\ has(dispatch[d].ch, channels))
            => /\ Resolves(dispatch[d].ch) \in DOMAIN elements
               /\ done'.cbn = 1
               /\ done'.cbv.element = Resolves(dispatch[d].ch)]_vars
    /\ [][\A x \in LookupEnv.names :
            (has(x, channels) /\ ~has(x, channels'))
            => Len(Destroying(tasks')) < Len(Destroying(tasks))]_vars

\* index name "a" was assigned to a component while it named another one,
\* a lookup of "a" having its timer set: the name still resolves to the
\* other component
C19_Witness ==
    \E c \in DOMAIN elements, x \in LookupEnv.names :
        /\ Assigns(log, c, x)
        /\ has(x, channels) /\ Resolves(x) # c
        /\ \E d \in DOMAIN dispatch :
               dispatch[d].st = "timer" /\ dispatch[d].ch = x

\* C20 (as claimed): when index name x is assigned to a component, x
\* resolves to that component from then on, whichever component it named.
C20_LastWriterWins ==
    \A c \in DOMAIN elements, x \in LookupEnv.names :
        (Assigns(log, c, x) /\ has(x, channels)) => Resolves(x) = c

\* C20 (amended): the first writer wins.  The assignment of a registered
\* index name x to a component is rejected: x resolves to the component it
\* named and the data.id of the assigned component stays what it was.  The
\* assignment of a name that is not registered makes x resolve to the
\* component and sets its data.id.
C20_FirstWriterWins ==
    [][\A c \in DOMAIN elements', x \in LookupEnv.names :
         Assigns(log', c, x)
         => IF has(x, channels)
            THEN /\ Resolves(x)' = Resolves(x)
                 /\ c \in DOMAIN elements
                        => elements'[c].indexName = elements[c].indexName
                 /\ c \notin DOMAIN elements => elements'[c].indexName = Null
            ELSE /\ has(x, channels') /\ Resolves(x)' = c
                 /\ elements'[c].indexName = x]_vars

\* two components of the registry: index name "a" was assigned to the
\* second while it named the first; it still names the first, and the
\* data.id of the second is null
C20_Witness ==
    \E c \in DOMAIN elements, x \in LookupEnv.names :
        /\ Assigns(log, c, x)
        /\ has(x, channels) /\ Resolves(x) # c
        /\ elements[Resolves(x)].indexName = x
        /\ elements[c].indexName = Null
        /\ c \in leisElementMap

\* what a call of callHook(name, reporter, c) has logged: the entries it
\* invoked and the entries it passed to the reporter, in order
HookLog(l, name, c) ==
    SelectSeq(l, LAMBDA r : r.kind \in {name, reported(name)} /\ r.element = c)

\* the keys of the components, and the key of the one create builds next
Keys == 1..(Len(elements) + 1)

\* the step has thrown
Unwound(l) == Ran("throw", "none", 0, Null) \in Range(l)

\* C21 (as claimed): a call of callHook(name, reporter, c) goes through the
\* whole list `name` in registration order: it invokes every entry that is
\* a function once with c, and passes every entry that is not a function
\* to the reporter without invoking it.
C21_CallHookInOrder ==
    [][\A name \in HookNames, c \in Keys :
         HookLog(log', name, c) # <<>>
         => HookLog(log', name, c)
              = [i \in DOMAIN hooks[name] |->
                   Ran(IF isFunction(hooks[name][i]) THEN name ELSE reported(name),
                       hooks[name][i], c, Null)]]_vars

\* C22 (as claimed): in a step of the core (construction, create, render;
\* no extension calls callHook) in which an entry of a hook list is passed
\* to the reporter for component c, every function of that list is invoked
\* for c and the step does not throw.
C22_BadHookDoesNotAbort ==
    [][\A name \in HookNames, c \in Keys :
         (/\ \A r \in Range(log') : r.kind # "callHook"
          /\ RanFor(log', reported(name), c) # <<>>)
         => /\ \A i \in DOMAIN hooks[name] :
                  isFunction(hooks[name][i])
                  => Ran(name, hooks[name][i], c, Null) \in Range(log')
            /\ ~Unwound(log')]_vars

\* C27 (as claimed): in the step in which create builds component k, the
\* init hooks run for k before the option-apply hooks, the option-apply
\* hooks before the pre-render hooks, and k is not rendered before its
\* options are applied and the option-apply hooks have run (a component
\* that is rendered when create returns was rendered before).
C27_RenderAfterOptions ==
    [][\A k \in DOMAIN elements' \ DOMAIN elements :
         /\ \A i \in DOMAIN log', j \in DOMAIN log' :
               (/\ log'[i].element = k /\ log'[j].element = k
                /\ \/ log'[i].kind = "useInit" /\ log'[j].kind \in {"useOption", "useRender"}
                   \/ log'[i].kind = "useOption" /\ log'[j].kind = "useRender")
               => i < j
         /\ ~elements'[k].rendered]_vars

\* the components whose fields have not been deleted
Live == {c \in DOMAIN elements : ~elements[c].cleared}

\* C23: in every state, for every component P and every component C, a
\* call P.add(C) that returns leaves C with parent pointer P, in the child
\* list and in the key map of P, rendered, with every child of C (the
\* components of its list whose recorded parent it is) rendered, and it
\* returns P.
C23_AddAttaches ==
    \A p \in Live, c \in Live :
        LET st == add(Heap(Range(timers)), p, Element(c)) IN
        ~st.thrown
        => /\ st.el[c].parent = p
           /\ c \in Range(st.el[p].content)
           /\ c \in Range(st.el[p].contentMap)
           /\ st.el[c].rendered
           /\ \A d \in Range(st.el[c].content) :
                 st.el[d].parent = c => st.el[d].rendered
           /\ st.ret = p

\* P.add(C) has returned, for a C that was not rendered and had got a child
\* D through the content option: C is attached to P and rendered, and D is
\* rendered and attached to C
C23_Witness ==
    \E p \in Live, c \in Live, d \in Live :
        /\ p # c /\ c # d /\ d # p
        /\ IsChild(elements, c, p) /\ elements[c].rendered
        /\ d \in Range(elements[c].content) /\ elements[d].parent = c
        /\ elements[d].rendered /\ elements[d].node = c
        /\ log = <<>>

\* the `add` listeners of p
AddListeners(p) ==
    IF has("add", elements[p].eventListeners)
    THEN elements[p].eventListeners["add"] ELSE <<>>

\* C24 (as claimed): when an `add` listener of P runs for P.add(C), C is not
\* yet attached to P: its parent pointer is not P or it is not in the key
\* map of P.
C24_ListenersBeforeAttach ==
    [][\A r \in Range(log') :
         (r.kind = "add" /\ IsElement(r.arg))
         => ~(/\ elements[r.arg.element].parent = r.element
              /\ r.arg.element \in Range(elements[r.element].contentMap))]_vars

\* C24 (amended): P.add(C) schedules the `add` listeners of P before it
\* attaches C, each on a 10 ms timer with P and C as arguments, whether or
\* not the attachment then throws, and runs none of them; a listener runs
\* only when its timer fires, in a later step.
C24_ListenersAfterReturn ==
    /\ [](\A p \in Live, c \in Live :
            LET st == add(Heap(Range(timers)), p, Element(c)) IN
            /\ RanFor(st.log, "add", p) = <<>>
            /\ st.tasks = tasks \o
                  [i \in DOMAIN AddListeners(p) |->
                     [Task(Heap(Range(timers)), "listener", p, 10)
                        EXCEPT !.by = AddListeners(p)[i], !.arg = Element(c)]])
    /\ [][\A r \in Range(log') :
            r.kind = "add"
            => \E i \in DOMAIN tasks :
                  /\ tasks[i].kind = "listener" /\ tasks[i].by = r.by
                  /\ tasks[i].element = r.element /\ tasks[i].arg = r.arg
                  /\ tasks' = Without(i)]_vars

\* the timer of an `add` listener of P has fired for P.add(C): the listener
\* has run in this step, and C is attached to P
C24_Witness ==
    \E p \in Live, c \in Live :
        /\ log = <<Ran("add", "add", p, Element(c))>>
        /\ IsChild(elements, c, p)

\* ------------------------------------------------- the outcomes of calls
Removers == {"removeEvent", "removeChannel"}

\* this step is a call of method op with channel name n
CallOf(op, n) == ret' # NoCall /\ ret'.op = op /\ ret'.name = n

Failed(r, mode, code) == r.mode = mode /\ r.code = code

\* C3: after clear(), every call of hasEvent, handle, invoke and removeEvent
\* fails with EventDestroyed whatever its arguments, and a destroyed bus
\* never becomes active again.
C3_DestroyedForGood ==
    /\ [](isDestroyed /\ ret.op \in {"hasEvent", "handle", "invoke"} \cup Removers
            => Failed(ret, "throw", "EVENT_DESTROYED"))
    /\ [][isDestroyed => isDestroyed']_vars

\* invoke with a blank name on a cleared bus
C3_Witness ==
    /\ isDestroyed
    /\ ret.op = "invoke" /\ ret.name = BlankName
    /\ Failed(ret, "throw", "EVENT_DESTROYED")

\* C4 (as claimed): handle(n, l2) on a channel registered with
\* removable = false fails with NonWritableChannel and leaves its listener.
C4_NonRemovableRejectsHandle ==
    [][\A n \in ValidNames :
         (has(n, channels) /\ ~channels[n].removable /\ CallOf("handle", n))
         => /\ ret'.code = "NON_WRITABLE_CHANNEL"
            /\ has(n, channels')
            /\ channels'[n].listener = channels[n].listener]_vars

\* C4 (amended): handle(n, l2) on a channel registered with writable = false
\* fails with NonWritableChannel and leaves its listener, whatever its
\* removable flag.
C4_NonWritableKeepsListener ==
    [][\A n \in ValidNames :
         (has(n, channels) /\ ~channels[n].writable /\ CallOf("handle", n))
         => /\ ret'.code = "NON_WRITABLE_CHANNEL"
            /\ has(n, channels')
            /\ channels'[n].listener = channels[n].listener]_vars

\* a handle call refused on a removable channel that is not writable
C4_Witness ==
    /\ ret.op = "handle" /\ ret.code = "NON_WRITABLE_CHANNEL"
    /\ has(ret.name, channels)
    /\ channels[ret.name].removable /\ ~channels[ret.name].writable

\* C5: handle on a channel whose writable flag is false fails with
\* NonWritableChannel and changes nothing (channels, pending queues, timers,
\* dispatches); handle overwrites a channel only if it is writable.
C5_NonWritableChangesNothing ==
    /\ [][\A n \in ValidNames :
            (has(n, channels) /\ ~channels[n].writable /\ CallOf("handle", n))
            => /\ Failed(ret', "reject", "NON_WRITABLE_CHANNEL")
               /\ UNCHANGED state]_vars
    /\ [][\A n \in ValidNames :
            (has(n, channels) /\ has(n, channels') /\ channels'[n] # channels[n])
            => channels[n].writable /\ CallOf("handle", n)]_vars

\* a handle call refused while the other channel has a pending queue
C5_Witness ==
    /\ ret.op = "handle" /\ ret.code = "NON_WRITABLE_CHANNEL"
    /\ \E n \in ValidNames : n # ret.name /\ has(n, inWaitChannel)

\* C6: removeEvent(n) on a channel registered with removable = false fails
\* with NonRemovableChannel and leaves the channel as it is; hasEvent
\* reports a registered channel, and a dispatch that fires on a registered
\* channel calls its listener.
C6_NonRemovableStays ==
    /\ [][\A n \in ValidNames, op \in Removers :
            (has(n, channels) /\ ~channels[n].removable /\ CallOf(op, n))
            => /\ Failed(ret', "throw", "NON_REMOVABLE_CHANNEL")
               /\ UNCHANGED state]_vars
    /\ [](ret.op = "hasEvent" /\ ret.mode = "return"
            => ret.value = has(ret.name, channels))
    /\ [][\A d \in DOMAIN dispatch :
            (Fired = d /\ ~isDestroyed /\ has(dispatch[d].ch, channels))
            => /\ done'.id = d /\ done'.lcalls = 1
               /\ done'.lis = channels[dispatch[d].ch].listener]_vars

\* a removeEvent call refused; the channel is still there
C6_Witness ==
    /\ ret.op = "removeEvent" /\ ret.code = "NON_REMOVABLE_CHANNEL"
    /\ has(ret.name, channels)

\* C7: on an active bus removeEvent(n) fails with ChannelNotFound when no
\* channel n is registered and changes nothing; on a removable channel it
\* deletes the channel and the pending queue of n.  An invoke(n) made while
\* n is not registered is queued, and leaves the queue only by a handle(n)
\* call (or with the queue, by clear).
C7_RemoveEvent ==
    /\ [][\A n \in ValidNames, op \in Removers :
            (~isDestroyed /\ ~has(n, channels) /\ CallOf(op, n))
            => /\ Failed(ret', "throw", "CHANNEL_NOT_FOUND")
               /\ UNCHANGED state]_vars
    /\ [][\A n \in ValidNames, op \in Removers :
            (has(n, channels) /\ channels[n].removable /\ CallOf(op, n))
            => /\ ret'.mode = "return"
               /\ ~has(n, channels') /\ ~has(n, inWaitChannel')
               /\ \A m \in ValidNames \ {n} :
                    /\ has(m, channels') = has(m, channels)
                    /\ has(m, channels) => channels'[m] = channels[m]]_vars
    /\ [][\A n \in ValidNames :
            (~isDestroyed /\ ~has(n, channels) /\ CallOf("invoke", n))
            => /\ ret'.mode = "resolve"
               /\ timers' = timers
               /\ has(n, inWaitChannel')
               /\ inWaitChannel'[n][Len(inWaitChannel'[n])] = Len(dispatch')]_vars
    /\ [][\A d \in DOMAIN dispatch :
            (dispatch[d].st = "queued" /\ dispatch'[d].st # "queued")
            => \/ CallOf("handle", dispatch[d].ch) /\ dispatch'[d].st = "timer"
               \/ ret'.op = "clear" /\ dispatch'[d].st = "dropped"]_vars

\* a removable channel has been removed while another stays registered
C7_Witness ==
    /\ ret.op = "removeEvent" /\ ret.mode = "return"
    /\ ~has(ret.name, channels)
    /\ channels # EmptyObj

\* C8 (as claimed): handle, invoke and removeEvent called with an invalid
\* channel name fail with InvalidChannelName.
C8_InvalidNameAlways ==
    (ret.op \in {"handle", "invoke"} \cup Removers /\ validateChannelName(ret.name))
    => ret.code = "INVALID_CHANNEL_NAME"

\* C8 (amended): on a bus that has not been cleared, handle, invoke and
\* removeEvent called with an invalid channel name fail with
\* InvalidChannelName and change nothing.
C8_InvalidNameOnActiveBus ==
    [][\A n \in InvalidNames, op \in {"handle", "invoke"} \cup Removers :
         (~isDestroyed /\ CallOf(op, n))
         => /\ ret'.code = "INVALID_CHANNEL_NAME"
            /\ UNCHANGED state]_vars

\* handle refused for a whitespace-only name while a dispatch waits
C8_Witness ==
    /\ ret.op = "handle" /\ ret.name = BlankName
    /\ ret.code = "INVALID_CHANNEL_NAME"
    /\ inWaitChannel # EmptyObj

\* C12: on one component, addEvent(type, fn2, name) raises UniqueType when a
\* listener is registered under (type, name), and then changes nothing: the
\* registration stays and no DOM listener is attached.  Under a name not yet
\* registered for the type it registers and attaches the new listener and
\* leaves the others as they are.  removeEvent(type, name) deletes exactly
\* the record (type, name) and detaches only its DOM listener.
C12_UniqueListenerNames ==
    /\ [][\A c \in DOMAIN elements, t \in EventEnv.types, n \in EventEnv.eventNames,
            l \in {Function(NameA), Function(EmptyName)}, o \in BOOLEAN :
            CallOf("addEvent", EventCall(c, t, l, n, o))
            => IF has(t, elements[c].eventMap) /\ has(n, elements[c].eventMap[t])
               THEN /\ Failed(ret', "throw", "UniqueType")
                    /\ elements' = elements
               ELSE /\ ret'.mode = "return"
                    /\ has(n, elements'[c].eventMap[t])
                    /\ \A u \in DOMAIN elements[c].eventMap :
                         \A m \in DOMAIN elements[c].eventMap[u] :
                            /\ has(m, elements'[c].eventMap[u])
                            /\ elements'[c].eventMap[u][m] = elements[c].eventMap[u][m]
                    /\ elements'[c].listeners = elements[c].listeners \cup
                         {DomListener(t, elements'[c].eventMap[t][n], o)}
                    /\ \A k \in elements[c].listeners :
                         k.callback # elements'[c].eventMap[t][n]]_vars
    /\ [][\A c \in DOMAIN elements, t \in EventEnv.types, n \in EventEnv.eventNames,
            o \in BOOLEAN :
            (CallOf("removeEvent", EventCall(c, t, NotAFunction, n, o))
                /\ has(t, elements[c].eventMap) /\ has(n, elements[c].eventMap[t]))
            => /\ ret'.mode = "return"
               /\ elements'[c].eventMap =
                    Put(elements[c].eventMap, t, Delete(elements[c].eventMap[t], n))
               /\ elements'[c].listeners = elements[c].listeners \
                    {DomListener(t, elements[c].eventMap[t][n], o)}]_vars

\* two listeners are registered for one type under two names, both attached,
\* and a third addEvent under one of the names has just been refused
C12_Witness ==
    /\ ret.op = "addEvent" /\ Failed(ret, "throw", "UniqueType")
    /\ \E t \in EventEnv.types :
         /\ has(t, elements[1].eventMap)
         /\ DOMAIN elements[1].eventMap[t] = {NameA, NameB}
         /\ ret.name.type = t /\ ret.name.name = NameA
         /\ \A n \in {NameA, NameB} :
              \E k \in elements[1].listeners :
                 k.type = t /\ k.callback = elements[1].eventMap[t][n]

\* C10: every violation is raised synchronously by the call that caused it.
C10_RaisedSynchronously ==
    ret.code \in Codes => ret.mode = "throw"

\* the destruction of c has run to its end: the timer that deletes the
\* fields of c is set
ClearSet(c) == \E i \in DOMAIN tasks : tasks[i].kind = "clear" /\ tasks[i].element = c

\* c is a rendered child held in the child collection of p
RenderedChild(el, c, p) ==
    /\ ~el[c].cleared
    /\ el[c].rendered
    /\ InCollection(el, c, p)

\* C25 (as claimed): the lifecycle of a component is one-way.  The rendered
\* flag of a component never changes from true to false; and a component
\* whose destruction has run (destroy() was called, its timer has fired and
\* has taken it out of its parent) is not a rendered child held in the
\* child collection of any component, whatever is called afterwards.
C25_LifecycleOneWay ==
    /\ [][\A c \in DOMAIN elements :
            (~elements[c].cleared /\ elements[c].rendered /\ ~elements'[c].cleared)
            => elements'[c].rendered]_vars
    /\ [](\A c \in Created, p \in DOMAIN elements :
            ClearSet(c) => ~RenderedChild(elements, c, p))

\* a timer of p.removeAll(callback) is set: its first timer or its interval
RemovingAll(p) ==
    \E i \in DOMAIN tasks :
        tasks[i].kind \in {"removeAll", "tick"} /\ tasks[i].element = p

\* the callback of p.removeAll(callback) runs in this step
CalledBack(p) == \E r \in Range(log) : r.kind = "removeAll" /\ r.element = p

\* C26 (as claimed): p.removeAll(callback), whatever the number of children
\* of p and whether or not its child list and key map have the same size,
\* eventually invokes callback, and its interval is then stopped: in the
\* step that calls callback no timer of the removeAll is left.
C26_RemoveAllCompletes ==
    \A p \in 2..(MaxTree + 1) :
        /\ RemovingAll(p) ~> CalledBack(p)
        /\ [](CalledBack(p) => ~RemovingAll(p))

\* the list l holds no component twice
NoDuplicate(l) == \A i, j \in DOMAIN l : l[i] = l[j] => i = j

\* C28 (as claimed): for every component whose fields have not been
\* deleted, the child list and the key map describe the same set of
\* children, and the child list holds no component twice.
C28_ListMatchesMap ==
    \A p \in Live :
        /\ Range(elements[p].content) = Range(elements[p].contentMap)
        /\ NoDuplicate(elements[p].content)

\* c is held by p: its parent pointer is p and the child list of p has it
HeldBy(el, c, p) == el[c].parent = p /\ c \in Range(el[p].content)

\* C29 (as claimed): a component is held in the child collection of its
\* current parent only.  In the step in which p2.add(c) takes a component c
\* that was held by another component p1, c leaves the child list and the
\* key map of p1.
C29_OneHolder ==
    [][\A c \in Live, p1 \in Live, p2 \in Live :
         (/\ p1 # p2 /\ c # p2 /\ c # p1
          /\ HeldBy(elements, c, p1)
          /\ HeldBy(elements', c, p2))
         => ~InCollection(elements', c, p1)]_vars

\* the record of dispatch d once the step is made: `done` when its exe has
\* completed, its entry of `dispatch` otherwise
RecordAfter(d) == IF done'.id = d THEN done' ELSE dispatch'[d]

\* C30: there is at most one listener per channel, the one of the last
\* successful handle.  A dispatch on n whose exe runs calls the listener
\* registered for n at that time exactly once, and no other, whether its
\* invoke was issued before or after the handle call that registered that
\* listener; and a dispatch calls a listener in no step but that of its exe.
C30_OneListenerPerChannel ==
    [][\A d \in DOMAIN dispatch :
         /\ (Fired = d /\ ~isDestroyed /\ has(dispatch[d].ch, channels))
            => /\ dispatch[d].lcalls = 0
               /\ RecordAfter(d).lis = channels[dispatch[d].ch].listener
               /\ RecordAfter(d).lcalls = 1
         /\ (Fired # d /\ dispatch[d].id = d)
            => /\ RecordAfter(d).lis = dispatch[d].lis
               /\ RecordAfter(d).lcalls = dispatch[d].lcalls]_vars

\* two invokes were deferred on one channel; handle(n, l2) has scheduled
\* both and the first is suspended in l2; a second handle(n, l) has
\* replaced l2 on the writable channel, and the second dispatch, scheduled
\* before that call, has run after it: it has called l once, and not l2
C30_Witness ==
    /\ Len(dispatch) >= 2
    /\ dispatch[1].st = "suspended" /\ dispatch[1].deferred /\ dispatch[1].lis = "l2"
    /\ done.id = 2 /\ done.deferred /\ done.ch = dispatch[1].ch
    /\ done.lis # "l2" /\ done.lcalls = 1
    /\ has(done.ch, channels)
    /\ channels[done.ch].listener = done.lis /\ channels[done.ch].writable

\* C31: on an active bus no channel name has both a registered channel and
\* an entry of the Pending Invocation Queue, and an entry that exists holds
\* at least one thunk; the handle call that registers n removes the entry
\* of n and schedules every thunk it held.
C31_QueueOrChannel ==
    /\ [](~isDestroyed =>
            /\ DOMAIN channels \cap DOMAIN inWaitChannel = {}
            /\ \A n \in DOMAIN inWaitChannel : inWaitChannel[n] # <<>>)
    /\ [][\A n \in DOMAIN inWaitChannel :
            (~isDestroyed /\ has(n, channels'))
            => /\ ~has(n, inWaitChannel')
               /\ \A d \in Range(inWaitChannel[n]) :
                    d \in Range(timers') /\ dispatch'[d].st = "timer"]_vars

\* handle(n) has drained the queue of n: a deferred dispatch on n awaits
\* its timer, n is registered and has no queue entry, while another name
\* still has one
C31_Witness ==
    /\ ~isDestroyed
    /\ \E d \in DOMAIN dispatch :
        /\ dispatch[d].id = d /\ dispatch[d].deferred /\ dispatch[d].handled
        /\ dispatch[d].st = "timer"
        /\ has(dispatch[d].ch, channels)
        /\ ~has(dispatch[d].ch, inWaitChannel)
    /\ inWaitChannel # EmptyObj

\* the list l without the component c
Others(l, c) == SelectSeq(l, LAMBDA k : k # c)

\* C32 (as claimed): destroying one child of P changes the child collection
\* of P only by removing that child.  In the step in which the timer of
\* c.destroy() fires, every other component of the child list of the
\* parent of c stays in it, in the same relative order.
C32_DestroyKeepsSiblings ==
    [][\A c \in Created :
         (DestroyRuns(c) /\ ~elements[c].cleared /\ elements[c].parent # 0
            /\ ~elements[elements[c].parent].cleared)
         => LET p == elements[c].parent IN
            Others(elements'[p].content, c) = Others(elements[p].content, c)]_vars

\* an error is raised in this step
Raised(l) == \E r \in Range(l) : r.kind = "throw"

\* the timer of a destroy() of c fires in this step, and that destroy() was
\* requested before an earlier request had completed: its timer was set
\* before the timer that deletes the fields of c
LateDestroyRuns(c) ==
    \E i \in DOMAIN tasks :
        /\ tasks[i].kind = "destroy" /\ tasks[i].element = c
        /\ Len(tasks') >= Len(tasks) - 1
        /\ SubSeq(tasks', 1, Len(tasks) - 1) = Without(i)
        /\ \E j \in (i + 1)..Len(tasks) :
                tasks[j].kind = "clear" /\ tasks[j].element = c

\* C33 (as claimed): the destroy listeners of a component fire at most
\* once and its deregistration runs at most once, even when destroy() is
\* requested again before the first request completes.  When the timer of
\* such a later request fires after the destruction of c has run to its
\* end (the timer that deletes the fields of c is set), no destroy
\* listener of c runs, no error is raised and no channel is removed.
C33_DestroyOnce ==
    [][\A c \in Created :
         (LateDestroyRuns(c) /\ ~elements[c].cleared)
         => /\ RanFor(log', "destroy", c) = <<>>
            /\ ~Raised(log')
            /\ channels' = channels]_vars

\* C34 (as claimed): once the destruction of a component has completed, no
\* channel of the Indexed Lookup Registry resolves to it.  In the step in
\* which the timer of c.destroy() runs to its end (it sets the timer that
\* deletes the fields of c), no index name is left that resolves to c,
\* a name that was assigned to c before its current one included.
C34_NoNameAfterDestroy ==
    [][\A c \in Created :
         (DestroyRuns(c) /\ ~ClearSet(c) /\ ClearSet(c)')
         => \A n \in DOMAIN channels' : ElementOf(channels'[n].listener) # c]_vars

\* C35 (as claimed): a dispatch that invoke (or a draining handle) has
\* scheduled on a channel, and that fires once removeEvent has removed the
\* channel, calls no listener and calls its result callback exactly once,
\* with no value.
C35_RemovedChannelDispatch ==
    [][\A d \in DOMAIN dispatch :
         (Fired = d /\ ~isDestroyed /\ ~has(dispatch[d].ch, channels)
            /\ dispatch[d].cb)
         => /\ done'.id = d
            /\ done'.lcalls = 0
            /\ done'.cbn = 1
            /\ done'.cbv = NoValue]_vars

\* C36: a dispatch scheduled before clear() that fires after it calls
\* neither the listener of its channel nor its result callback, and raises
\* no error: its exe completes and leaves the cleared bus as it is.
C36_DispatchAfterClear ==
    [][\A d \in DOMAIN dispatch :
         (Fired = d /\ isDestroyed)
         => /\ done'.id = d
            /\ done'.st = "done"
            /\ done'.lcalls = 0
            /\ done'.cbn = 0
            /\ isDestroyed'
            /\ UNCHANGED <<channels, inWaitChannel, EVENTS>>]_vars

\* a dispatch with a result callback, scheduled by a handle call that
\* drained its queue, has fired on the cleared bus
C36_Witness ==
    /\ isDestroyed
    /\ done.id # 0 /\ done.cb /\ done.deferred /\ done.handled
    /\ done.lcalls = 0 /\ done.cbn = 0

\* the timers of the `add` listeners of p that are set, in a list of timers
AddTimers(ts, p) == SelectSeq(ts, LAMBDA t : t.kind = "listener" /\ t.element = p)

\* C37 (as claimed): an add call that ends up attaching a child fires every
\* `add` listener of the parent exactly once, with the attached component
\* as argument, add(indexName) included.  In the step in which the lookup
\* of p.add(name) resolves and attaches c to p, the timers of the `add`
\* listeners of p that are set are those of this step, one for each
\* listener, each with c as argument.
C37_AddListenersOnce ==
    [][\A d \in DOMAIN dispatch :
         LET p == closures[d].element
             v == ToValue(done'.cbv)
         IN  (/\ Fired = d /\ done'.id = d /\ done'.cbn = 1
              /\ closures[d].kind = "add"
              /\ IsElement(v) /\ v.element # p
              /\ HeldBy(elements', v.element, p))
             => /\ Len(AddTimers(tasks', p)) = Len(AddListeners(p))
                /\ \A i \in DOMAIN AddTimers(tasks', p) :
                        AddTimers(tasks', p)[i].arg = v]_vars

====
